---- MODULE Spec2Model ----
(***************************************************************************)
(* Model of the worker pool of src/disk_cleaner.py: SystemAnalyzer's       *)
(* event_queue, metrics, workers list and running flag, the worker loop    *)
(* (worker_function), the task dispatch (process_task), start_workers,     *)
(* stop_workers and the orchestration of main().                           *)
(*                                                                         *)
(* Threads are preemptible: every shared-memory access of a thread is a    *)
(* separate step. queue.Queue.get/put are atomic (the queue's own lock).   *)
(* Timeouts are untimed: a timed wait may end by its event or by timeout.  *)
(* The script ends after main(): the worker threads are daemon threads and *)
(* stop with the interpreter.                                              *)
(***************************************************************************)
EXTENDS Integers, Sequences, FiniteSets, TLC

\* ---------------------------------------------------------------- bounds
\* largest count argument given to start_workers (main passes 3)
MaxCount == 2
\* largest batch put on the queue (main puts 100)
MaxTasks == 2
\* number of random draws summed by a math task (1000 in the source)
MathDraws == 1
\* half the length of the array a sort task generates (2500 in the source)
HalfLen == 3

\* len(arr): 5000 in the source, an even number
ArrLen == 2 * HalfLen

Min(a, b) == IF a <= b THEN a ELSE b

\* the values of os.cpu_count() or 1 on the hosts the model runs on
CpuCounts == {1, 2}

\* the largest of them
MaxCpu == CHOOSE c \in CpuCounts : \A d \in CpuCounts : d <= c

\* the worker identities start_workers can hand out
WorkerIds == 0 .. (Min(MaxCount, MaxCpu) - 1)

\* the values random.randint(1, 100) is drawn from in the model
RandomInts == {1, 2}

\* the values random.random() is drawn from in the model
RandomFloats == {0, 1}

\* task types main() chooses from
TaskTypes == {"hash", "math", "sort"}

\* what a caller can put on the queue: a dict with a type, or an object that
\* is no mapping at all ("malformed": task.get raises AttributeError)
PutKinds == TaskTypes \cup {"malformed"}

VARIABLES
    cpu_count,     \* self.cpu_count
    count,         \* argument of start_workers
    batch,         \* number of tasks main puts (range(100))
    running,       \* self.running
    event_queue,   \* self.event_queue, head first
    metrics,       \* self.metrics: a defaultdict(list), key -> sequence of results
    workers,       \* self.workers: thread handles in start order
    mpc,           \* position of the main thread
    joined,        \* number of handles stop_workers has joined so far
    wpc,           \* position of each worker thread
    task,          \* local variable task of each worker
    submitted,     \* history: the tasks put, in put order
    dequeued,      \* history: <<worker, task>> of every get that returned
    done,          \* history: per worker, the task ids behind its results
    lost,          \* history: ids of tasks whose computation failed
    late,          \* history: results appended after stop_workers returned
    sort_arr,      \* process_task, sort branch: local arr while it is built
    sort_result    \* process_task, sort branch: the value returned

vars == <<cpu_count, count, batch, running, event_queue, metrics, workers, mpc,
          joined, wpc, task, submitted, dequeued, done, lost, late,
          sort_arr, sort_result>>

NoTask == [id |-> -1, type |-> "none"]
NoResult == <<"none">>

\* seeded fault: every worker writes under one key
WorkerKey_shared(worker_id) == <<"worker", 0>>

\* f'worker_{worker_id}'
WorkerKey(worker_id) == <<"worker", worker_id>>

\* seeded fault: range(count), the clamp forgotten
NumWorkers_unclamped(c, cpus) == c

\* min(count, self.cpu_count)
NumWorkers(c, cpus) == Min(c, cpus)

\* ------------------------------------------------------------ process_task
\* str(task_id): the decimal digits of a non-negative integer
RECURSIVE Str(_)
Str(n) == IF n < 10 THEN <<n>> ELSE Append(Str(n \div 10), n % 10)

\* hashlib.sha256(s.encode()).hexdigest(): a fixed function of the string,
\* kept symbolic (collision-free)
Sha256Hex(s) == <<"sha256", s>>

\* results are tagged with their Python type
IntResult(v) == <<"int", v>>
FloatResult(v) == <<"float", v>>

RECURSIVE SumSeq(_)
SumSeq(s) == IF s = <<>> THEN 0 ELSE Head(s) + SumSeq(Tail(s))

\* insert x into the ascending sequence s
RECURSIVE Insert(_, _)
Insert(x, s) ==
    IF s = <<>> THEN <<x>>
    ELSE IF x <= Head(s) THEN <<x>> \o s
    ELSE <<Head(s)>> \o Insert(x, Tail(s))

\* sorted(arr)
RECURSIVE Sorted(_)
Sorted(arr) == IF arr = <<>> THEN <<>> ELSE Insert(Head(arr), Sorted(Tail(arr)))

\* seeded fault: the index is one too low, the lower of the two middle elements
MidElement_lower(arr) == Sorted(arr)[Len(arr) \div 2]

\* sorted(arr)[len(arr)//2], Python's 0-based index on a 1-based sequence
MidElement(arr) == Sorted(arr)[(Len(arr) \div 2) + 1]

\* process_task raises: task.get on an object that is no mapping
Raises(t) == t.type = "malformed"

\* sum(random.randint(1, 100) for _ in range(1000)) over every draw
MathResults == {IntResult(SumSeq(d)) : d \in [1 .. MathDraws -> RandomInts]}

\* arr = [random.random() for _ in range(5000)]; sorted(arr)[len(arr)//2]
\* over every array
SortResults == {FloatResult(MidElement(arr)) : arr \in [1 .. ArrLen -> RandomFloats]}

\* the values process_task can return for a task (random draws are inputs)
ProcessTask(t) ==
    IF t.type = "hash" THEN {Sha256Hex(Str(t.id))}
    ELSE IF t.type = "math" THEN MathResults
    ELSE IF t.type = "sort" THEN SortResults
    ELSE {FloatResult(v) : v \in RandomFloats}

\* ------------------------------------------------------------------- state
\* positions of a worker thread
Live == {"check", "get", "process"}
Terminated == {"exited", "died", "killed"}

\* SystemAnalyzer.__init__, before main() calls start_workers
Init ==
    /\ cpu_count \in CpuCounts
    /\ count \in 1 .. MaxCount
    /\ batch \in 0 .. MaxTasks
    /\ running = TRUE
    /\ event_queue = <<>>
    /\ metrics = [k \in {} |-> <<>>]
    /\ workers = <<>>
    /\ mpc = "start"
    /\ joined = 0
    /\ wpc = [i \in WorkerIds |-> "unstarted"]
    /\ task = [i \in WorkerIds |-> NoTask]
    /\ submitted = <<>>
    /\ dequeued = <<>>
    /\ done = [i \in WorkerIds |-> <<>>]
    /\ lost = {}
    /\ late = 0
    /\ sort_arr = <<>>
    /\ sort_result = NoResult

\* self.metrics[key] of a defaultdict(list): a missing key reads as []
MetricsGet(m, key) == IF key \in DOMAIN m THEN m[key] ELSE <<>>

\* seeded fault: the result is appended twice
MetricsAppend_twice(m, key, r) ==
    [k \in (DOMAIN m) \cup {key} |->
        IF k = key THEN Append(Append(MetricsGet(m, key), r), r) ELSE m[k]]

\* seeded fault: the result is put in front, self.metrics[key].insert(0, r)
MetricsAppend_front(m, key, r) ==
    [k \in (DOMAIN m) \cup {key} |->
        IF k = key THEN <<r>> \o MetricsGet(m, key) ELSE m[k]]

\* self.metrics[key].append(r)
MetricsAppend(m, key, r) ==
    [k \in (DOMAIN m) \cup {key} |->
        IF k = key THEN Append(MetricsGet(m, key), r) ELSE m[k]]

\* number of results in the whole metrics store
RECURSIVE TotalOver(_, _)
TotalOver(m, keys) ==
    IF keys = {} THEN 0
    ELSE LET k == CHOOSE x \in keys : TRUE
         IN Len(m[k]) + TotalOver(m, keys \ {k})

TotalResults == TotalOver(metrics, DOMAIN metrics)

\* ------------------------------------------------------------- main thread
\* one iteration of the loop of start_workers: create, start, record the handle
MStartWorker ==
    /\ mpc = "start"
    /\ Len(workers) < NumWorkers(count, cpu_count)
    /\ LET i == Len(workers) IN
        /\ wpc' = [wpc EXCEPT ![i] = "check"]
        /\ workers' = Append(workers, i)
    /\ mpc' = IF Len(workers') < NumWorkers(count, cpu_count) THEN "start"
              ELSE IF batch = 0 THEN "analysis" ELSE "put"
    /\ UNCHANGED <<late, sort_arr, sort_result, cpu_count, count, batch,
                   running, event_queue, metrics, joined, task, submitted,
                   dequeued, done, lost>>

\* one iteration of main's loop: event_queue.put of a task of a kind in kinds
MPut(kinds) ==
    /\ mpc = "put"
    /\ Len(submitted) < batch
    /\ \E k \in kinds :
        LET t == [id |-> Len(submitted), type |-> k] IN
        /\ event_queue' = Append(event_queue, t)
        /\ submitted' = Append(submitted, t)
    /\ mpc' = IF Len(submitted') < batch THEN "put" ELSE "analysis"
    /\ UNCHANGED <<late, sort_arr, sort_result, cpu_count, count, batch,
                   running, metrics, workers, joined, wpc, task, dequeued,
                   done, lost>>

\* analyzer.run_analysis(): reads len(self.workers), changes no pool state
MRunAnalysis ==
    /\ mpc = "analysis"
    /\ mpc' = "stop"
    /\ UNCHANGED <<late, sort_arr, sort_result, cpu_count, count, batch,
                   running, event_queue, metrics, workers, joined, wpc, task,
                   submitted, dequeued, done, lost>>

\* a caller that polls the metrics until every task of the batch is recorded
MWaitRecorded ==
    /\ mpc = "analysis"
    /\ TotalResults = batch
    /\ mpc' = "stop"
    /\ UNCHANGED <<late, sort_arr, sort_result, cpu_count, count, batch,
                   running, event_queue, metrics, workers, joined, wpc, task,
                   submitted, dequeued, done, lost>>

\* stop_workers, first statement: self.running = False
MStop ==
    /\ mpc = "stop"
    /\ running' = FALSE
    /\ joined' = 0
    /\ mpc' = "join"
    /\ UNCHANGED <<late, sort_arr, sort_result, cpu_count, count, batch,
                   event_queue, metrics, workers, wpc, task, submitted,
                   dequeued, done, lost>>

\* the effect of one w.join(timeout=1) returning, however it returns
JoinNext ==
    /\ joined' = joined + 1
    /\ mpc' = IF joined + 1 < Len(workers) THEN "join" ELSE "print"
    /\ UNCHANGED <<late, sort_arr, sort_result, cpu_count, count, batch,
                   running, event_queue, metrics, workers, wpc, task,
                   submitted, dequeued, done, lost>>

\* w.join(timeout=1) returns because the thread has ended
MJoinReturn ==
    /\ mpc = "join"
    /\ wpc[workers[joined + 1]] \in Terminated
    /\ JoinNext

\* seeded fault: w.join() without a timeout, which returns only once the
\* thread has ended
MJoinTimeout_blocking ==
    /\ mpc = "join"
    /\ wpc[workers[joined + 1]] \in Terminated
    /\ JoinNext

\* seeded fault: the join gives up on a worker blocked in get only, and
\* waits for a worker that is executing a task
MJoinTimeout_idle ==
    /\ mpc = "join"
    /\ wpc[workers[joined + 1]] = "get"
    /\ JoinNext

\* w.join(timeout=1) times out: the thread is still alive after the second,
\* busy in a task or inside its own get(timeout=1) (a thread that only has to
\* read the flag does so within the second); stop proceeds
MJoinTimeout ==
    /\ mpc = "join"
    /\ wpc[workers[joined + 1]] \in {"get", "process"}
    /\ JoinNext

\* print(...), the last statement of main
MPrint ==
    /\ mpc = "print"
    /\ mpc' = "returned"
    /\ UNCHANGED <<late, sort_arr, sort_result, cpu_count, count, batch,
                   running, event_queue, metrics, workers, joined, wpc, task,
                   submitted, dequeued, done, lost>>

\* the script ends after main(): the interpreter exits and the daemon
\* threads (t.daemon = True) that are still alive stop where they are
ProcessExit ==
    /\ mpc = "returned"
    /\ mpc' = "exited"
    /\ wpc' = [i \in WorkerIds |-> IF wpc[i] \in Live THEN "killed" ELSE wpc[i]]
    /\ UNCHANGED <<late, sort_arr, sort_result, cpu_count, count, batch,
                   running, event_queue, metrics, workers, joined, task,
                   submitted, dequeued, done, lost>>

\* ---------------------------------------------------------- worker threads
\* seeded fault: the loop also goes on while tasks are queued (drain on shutdown)
WCheck_drain(i) ==
    /\ wpc[i] = "check"
    /\ wpc' = [wpc EXCEPT ![i] =
            IF running \/ event_queue # <<>> THEN "get" ELSE "exited"]
    /\ UNCHANGED <<late, sort_arr, sort_result, cpu_count, count, batch,
                   running, event_queue, metrics, workers, mpc, joined, task,
                   submitted, dequeued, done, lost>>

\* seeded fault: while True, the flag is never read
WCheck_forever(i) ==
    /\ wpc[i] = "check"
    /\ wpc' = [wpc EXCEPT ![i] = "get"]
    /\ UNCHANGED <<late, sort_arr, sort_result, cpu_count, count, batch,
                   running, event_queue, metrics, workers, mpc, joined, task,
                   submitted, dequeued, done, lost>>

\* while self.running: the read of the flag at the top of the loop
WCheck(i) ==
    /\ wpc[i] = "check"
    /\ wpc' = [wpc EXCEPT ![i] = IF running THEN "get" ELSE "exited"]
    /\ UNCHANGED <<late, sort_arr, sort_result, cpu_count, count, batch,
                   running, event_queue, metrics, workers, mpc, joined, task,
                   submitted, dequeued, done, lost>>

\* seeded fault: get returns the head without removing it
QueueGet_peek(q) == [item |-> Head(q), rest |-> q]

\* seeded fault: get takes from the tail (a LIFO queue)
QueueGet_lifo(q) == [item |-> q[Len(q)], rest |-> SubSeq(q, 1, Len(q) - 1)]

\* what Queue.get hands out and what it leaves: the head, and the rest
QueueGet(q) == [item |-> Head(q), rest |-> Tail(q)]

\* task = self.event_queue.get(timeout=1) returns an item
WGet(i) ==
    /\ wpc[i] = "get"
    /\ event_queue # <<>>
    /\ task' = [task EXCEPT ![i] = QueueGet(event_queue).item]
    /\ event_queue' = QueueGet(event_queue).rest
    /\ wpc' = [wpc EXCEPT ![i] = "process"]
    /\ dequeued' = Append(dequeued, <<i, QueueGet(event_queue).item>>)
    /\ UNCHANGED <<late, sort_arr, sort_result, cpu_count, count, batch,
                   running, metrics, workers, mpc, joined, submitted, done,
                   lost>>

\* seeded fault: an idle worker clears the flag itself
WTimeout_stops(i) ==
    /\ wpc[i] = "get"
    /\ event_queue = <<>>
    /\ wpc' = [wpc EXCEPT ![i] = "check"]
    /\ running' = FALSE
    /\ UNCHANGED <<late, sort_arr, sort_result, cpu_count, count, batch,
                   event_queue, metrics, workers, mpc, joined, task,
                   submitted, dequeued, done, lost>>

\* seeded fault: queue.Empty is not caught and ends the thread
WTimeout_uncaught(i) ==
    /\ wpc[i] = "get"
    /\ event_queue = <<>>
    /\ wpc' = [wpc EXCEPT ![i] = "died"]
    /\ UNCHANGED <<late, sort_arr, sort_result, cpu_count, count, batch,
                   running, event_queue, metrics, workers, mpc, joined, task,
                   submitted, dequeued, done, lost>>

\* get(timeout=1) raises queue.Empty; except queue.Empty: continue
WTimeout(i) ==
    /\ wpc[i] = "get"
    /\ event_queue = <<>>
    /\ wpc' = [wpc EXCEPT ![i] = "check"]
    /\ UNCHANGED <<late, sort_arr, sort_result, cpu_count, count, batch,
                   running, event_queue, metrics, workers, mpc, joined, task,
                   submitted, dequeued, done, lost>>

\* seeded fault: the result is computed and thrown away
WProcess_discard(i) ==
    /\ wpc[i] = "process"
    /\ ~Raises(task[i])
    /\ task' = [task EXCEPT ![i] = NoTask]
    /\ wpc' = [wpc EXCEPT ![i] = "check"]
    /\ UNCHANGED <<late, sort_arr, sort_result, cpu_count, count, batch,
                   running, event_queue, metrics, workers, mpc, joined,
                   submitted, dequeued, done, lost>>

\* result = self.process_task(task, worker_id) returns (thread-local work),
\* self.metrics[f'worker_{worker_id}'].append(result), then back to the top
\* seeded fault: a result that is ready after the flag was cleared is dropped
WProcess_cancel(i) ==
    /\ wpc[i] = "process"
    /\ ~Raises(task[i])
    /\ IF running
       THEN /\ \E r \in ProcessTask(task[i]) :
                    metrics' = MetricsAppend(metrics, WorkerKey(i), r)
            /\ done' = [done EXCEPT ![i] = Append(@, task[i].id)]
       ELSE UNCHANGED <<metrics, done>>
    /\ task' = [task EXCEPT ![i] = NoTask]
    /\ wpc' = [wpc EXCEPT ![i] = "check"]
    /\ UNCHANGED <<late, sort_arr, sort_result, cpu_count, count, batch,
                   running, event_queue, workers, mpc, joined, submitted,
                   dequeued, lost>>

WProcess(i) ==
    /\ wpc[i] = "process"
    /\ ~Raises(task[i])
    /\ \E r \in ProcessTask(task[i]) :
        metrics' = MetricsAppend(metrics, WorkerKey(i), r)
    /\ done' = [done EXCEPT ![i] = Append(@, task[i].id)]
    /\ task' = [task EXCEPT ![i] = NoTask]
    /\ wpc' = [wpc EXCEPT ![i] = "check"]
    /\ late' = IF mpc \in {"print", "returned"} THEN late + 1 ELSE late
    /\ UNCHANGED <<sort_arr, sort_result, cpu_count, count, batch, running,
                   event_queue, workers, mpc, joined, submitted, dequeued,
                   lost>>

\* seeded fault: every exception is caught and the loop goes on
WRaise_caught(i) ==
    /\ wpc[i] = "process"
    /\ Raises(task[i])
    /\ wpc' = [wpc EXCEPT ![i] = "check"]
    /\ lost' = lost \cup {task[i].id}
    /\ task' = [task EXCEPT ![i] = NoTask]
    /\ UNCHANGED <<late, sort_arr, sort_result, cpu_count, count, batch,
                   running, event_queue, metrics, workers, mpc, joined,
                   submitted, dequeued, done>>

\* seeded fault: the task that failed is put back on the queue for a retry
\* before the exception ends the thread
WRaise_requeue(i) ==
    /\ wpc[i] = "process"
    /\ Raises(task[i])
    /\ wpc' = [wpc EXCEPT ![i] = "died"]
    /\ event_queue' = Append(event_queue, task[i])
    /\ lost' = lost \cup {task[i].id}
    /\ task' = [task EXCEPT ![i] = NoTask]
    /\ UNCHANGED <<late, sort_arr, sort_result, cpu_count, count, batch,
                   running, metrics, workers, mpc, joined, submitted,
                   dequeued, done>>

\* process_task raises: only queue.Empty is caught, the thread ends
WRaise(i) ==
    /\ wpc[i] = "process"
    /\ Raises(task[i])
    /\ wpc' = [wpc EXCEPT ![i] = "died"]
    /\ lost' = lost \cup {task[i].id}
    /\ task' = [task EXCEPT ![i] = NoTask]
    /\ UNCHANGED <<late, sort_arr, sort_result, cpu_count, count, batch,
                   running, event_queue, metrics, workers, mpc, joined,
                   submitted, dequeued, done>>

\* ----------------------------------------------------------- specifications
Worker(i) ==
    \/ WCheck(i)
    \/ WGet(i)
    \/ WTimeout(i)
    \/ WProcess(i)
    \/ WRaise(i)

Main ==
    \/ MStartWorker
    \/ MPut(PutKinds)
    \/ MRunAnalysis
    \/ MStop
    \/ MJoinReturn
    \/ MJoinTimeout
    \/ MPrint
    \/ ProcessExit

Next == Main \/ \E i \in WorkerIds : Worker(i)

\* main() as written, every interleaving of the threads
Spec == Init /\ [][Next]_vars

\* the same, with the scheduler running every thread that can take a step
SpecFair ==
    /\ Spec
    /\ WF_vars(Main)
    /\ \A i \in WorkerIds : WF_vars(Worker(i))

\* the main thread keeps running and a worker thread gets to read the flag,
\* while a task may run for ever and a get may stay blocked
SpecMainFair ==
    /\ Spec
    /\ WF_vars(Main)
    /\ \A i \in WorkerIds : WF_vars(WCheck(i))

\* a caller that enqueues well-formed tasks only and waits until every one of
\* them is recorded before it calls stop_workers
MainWait ==
    \/ MStartWorker
    \/ MPut(TaskTypes)
    \/ MWaitRecorded
    \/ MStop
    \/ MJoinReturn
    \/ MJoinTimeout
    \/ MPrint
    \/ ProcessExit

WorkerWait(i) ==
    \/ WCheck(i)
    \/ WGet(i)
    \/ WTimeout(i)
    \/ WProcess(i)

NextWait == MainWait \/ \E i \in WorkerIds : WorkerWait(i)

SpecWait ==
    /\ Init
    /\ [][NextWait]_vars
    /\ WF_vars(MainWait)
    /\ \A i \in WorkerIds : WF_vars(WorkerWait(i))

\* ------------------------------------------- process_task on a sort task
\* the pool's own variables, which one call of process_task does not touch
poolVars == <<cpu_count, count, batch, running, event_queue, metrics, workers,
              mpc, joined, wpc, task, submitted, dequeued, done, lost, late>>

\* a constructed analyzer, and a call of process_task on a sort task begins
SortInit ==
    /\ cpu_count \in CpuCounts
    /\ count = 1
    /\ batch = 0
    /\ running = TRUE
    /\ event_queue = <<>>
    /\ metrics = [k \in {} |-> <<>>]
    /\ workers = <<>>
    /\ mpc = "start"
    /\ joined = 0
    /\ wpc = [i \in WorkerIds |-> "unstarted"]
    /\ task = [i \in WorkerIds |-> NoTask]
    /\ submitted = <<>>
    /\ dequeued = <<>>
    /\ done = [i \in WorkerIds |-> <<>>]
    /\ lost = {}
    /\ late = 0
    /\ sort_arr = <<>>
    /\ sort_result = NoResult

\* one iteration of arr = [random.random() for _ in range(5000)]
SortDraw ==
    /\ sort_result = NoResult
    /\ Len(sort_arr) < ArrLen
    /\ \E v \in RandomFloats : sort_arr' = Append(sort_arr, v)
    /\ UNCHANGED <<poolVars, sort_result>>

\* return sorted(arr)[len(arr)//2]; sorted() copies, arr is left as it was
SortReturn ==
    /\ sort_result = NoResult
    /\ Len(sort_arr) = ArrLen
    /\ sort_result' = FloatResult(MidElement(sort_arr))
    /\ UNCHANGED <<poolVars, sort_arr>>

SortNext == SortDraw \/ SortReturn

SpecSort == SortInit /\ [][SortNext]_vars

\* ------------------------------------------------------------------ claims
\* the worker threads start_workers has started
Started == {i \in WorkerIds : wpc[i] # "unstarted"}

\* the task ids behind the results of worker i
DoneIds(i) == {done[i][k] : k \in 1 .. Len(done[i])}

\* stop_workers has returned
StopReturned == mpc \in {"print", "returned", "exited"}

\* C1: no enqueued task is delivered to more than one worker: no two gets (of
\* the same or of different workers) return the same task, no two workers hold
\* the same task, and no task stands behind more than one recorded result.
AtMostOneDelivery ==
    /\ \A a, b \in 1 .. Len(dequeued) :
        a # b => dequeued[a][2].id # dequeued[b][2].id
    /\ \A i, j \in WorkerIds :
        (i # j /\ task[i] # NoTask /\ task[j] # NoTask) => task[i].id # task[j].id
    /\ \A i, j \in WorkerIds :
        \A a \in 1 .. Len(done[i]) : \A b \in 1 .. Len(done[j]) :
            (i # j \/ a # b) => done[i][a] # done[j][b]

\* two workers have each taken a task from the queue and recorded its result
TwoWorkersDelivered ==
    /\ \E a, b \in 1 .. Len(dequeued) : dequeued[a][1] # dequeued[b][1]
    /\ \A i \in Started : Len(done[i]) > 0
    /\ Cardinality(Started) = 2

\* C2: FIFO: the tasks returned by the gets, in the order of the gets across
\* all workers, are always a prefix of the tasks in the order they were put.
DequeueIsPrefixOfSubmission ==
    /\ Len(dequeued) <= Len(submitted)
    /\ \A k \in 1 .. Len(dequeued) : dequeued[k][2] = submitted[k]

\* a single consumer, no other worker started, has taken two tasks
OneConsumerTookTwo ==
    /\ Cardinality(Started) = 1
    /\ Len(dequeued) = 2
    /\ Len(submitted) = 2

\* C3: the number of results recorded over all keys of the metrics store never
\* exceeds the number of tasks put on the queue; in particular after
\* stop_workers has returned.
ResultsAtMostEnqueued == TotalResults <= Len(submitted)

\* stop_workers has returned with some, but not all, of the tasks recorded
StoppedWithFewerResults ==
    /\ StopReturned
    /\ TotalResults >= 1
    /\ TotalResults < Len(submitted)

\* C4: partition isolation: every change of the metrics store is one append
\* of a result of worker i's own task to the end of the entry keyed by worker
\* i, made by worker i, and it leaves every other entry as it was.
PartitionIsolation ==
    [][metrics' # metrics =>
        \E i \in Started :
            /\ wpc[i] = "process"
            /\ wpc'[i] = "check"
            /\ \A j \in WorkerIds \ {i} : wpc'[j] = wpc[j]
            /\ mpc' = mpc
            /\ DOMAIN metrics' = (DOMAIN metrics) \cup {<<"worker", i>>}
            /\ \A k \in DOMAIN metrics : k # <<"worker", i>> => metrics'[k] = metrics[k]
            /\ \E r \in ProcessTask(task[i]) :
                metrics'[<<"worker", i>>] =
                    Append(MetricsGet(metrics, <<"worker", i>>), r)]_vars

\* both workers have appended to their own entries
BothEntriesWritten ==
    /\ <<"worker", 0>> \in DOMAIN metrics
    /\ <<"worker", 1>> \in DOMAIN metrics

\* C9: once start_workers(count) has returned, exactly min(count, cpu_count)
\* workers have been started, with the identities 0 .. min(count, cpu_count)-1,
\* and the workers list holds exactly one handle per started worker.
StartSpawnsClampedCount ==
    mpc # "start" =>
        LET n == IF count <= cpu_count THEN count ELSE cpu_count IN
        /\ Len(workers) = n
        /\ \A k \in 1 .. n : workers[k] = k - 1
        /\ Started = 0 .. (n - 1)

\* start_workers has returned after clamping a count above the cpu count
StartedClamped ==
    /\ mpc # "start"
    /\ count > cpu_count
    /\ Len(workers) = cpu_count

\* C10: running is true initially, is written only by stop_workers, which sets
\* it to false, and once false it is never true again.
RunningOneWay ==
    /\ running = TRUE
    /\ [][/\ running' # running =>
              (mpc = "stop" /\ mpc' = "join" /\ running' = FALSE /\ wpc' = wpc)
          /\ ~running => ~running']_vars

\* the flag has been cleared and a worker has seen it and left its loop
StoppedAndObserved ==
    /\ ~running
    /\ \E i \in Started : wpc[i] = "exited"

\* start_workers has returned and every worker it started has ended
AllWorkersEnded == mpc # "start" /\ \A i \in Started : wpc[i] \in Terminated

\* q is a prefix of r
IsPrefix(q, r) == Len(q) <= Len(r) /\ \A k \in 1 .. Len(q) : q[k] = r[k]

\* C6: no drain on shutdown: a worker that reads running == false at the top
\* of its loop leaves the loop at once, without another get, also when the
\* queue is not empty; and once every worker has ended, the queued tasks stay
\* queued and no further result is recorded.
NoDrainOnShutdown ==
    [][/\ \A i \in WorkerIds :
            (wpc[i] = "check" /\ ~running /\ wpc'[i] # wpc[i] /\ mpc' = mpc) =>
                /\ wpc'[i] = "exited"
                /\ event_queue' = event_queue
                /\ dequeued' = dequeued
       /\ \A i \in WorkerIds : wpc[i] \in Terminated => wpc'[i] \in Terminated
       /\ AllWorkersEnded =>
                /\ IsPrefix(event_queue, event_queue')
                /\ dequeued' = dequeued
                /\ metrics' = metrics]_vars

\* every worker has left its loop on the cleared flag, with tasks still queued
ExitedWithTasksQueued ==
    /\ mpc # "start"
    /\ ~running
    /\ \A i \in Started : wpc[i] = "exited"
    /\ event_queue # <<>>

\* C8: when process_task fails for a task, that worker's loop ends for good;
\* the step appends no result, puts nothing back on the queue, leaves running,
\* the workers list and the main thread as they were (nothing is reported),
\* and leaves every other worker where it was, free to go on.
PassThroughFailure ==
    [][\A i \in WorkerIds :
        /\ (wpc[i] = "process" /\ task[i].type = "malformed"
                /\ wpc'[i] # wpc[i] /\ mpc' = mpc) => wpc'[i] = "died"
        /\ (wpc[i] = "process" /\ wpc'[i] = "died") =>
                /\ task[i].type = "malformed"
                /\ metrics' = metrics
                /\ event_queue' = event_queue
                /\ running' = running
                /\ workers' = workers
                /\ mpc' = mpc
                /\ joined' = joined
                /\ \A j \in WorkerIds \ {i} : wpc'[j] = wpc[j] /\ task'[j] = task[j]
        /\ wpc[i] = "died" =>
                /\ wpc'[i] = "died"
                /\ done'[i] = done[i]
                /\ \A k \in 1 .. Len(dequeued') :
                        k > Len(dequeued) => dequeued'[k][1] # i]_vars

\* a worker has died of a failed task and the other worker has since taken
\* a later task and recorded its result
SurvivorRecordsAfterFailure ==
    \E i, j \in Started :
        /\ i # j
        /\ wpc[i] = "died"
        /\ \E l \in lost : \E d \in DoneIds(j) : d > l

\* steps a worker in its loop is away from leaving it once the flag is
\* cleared: at most one get, one task, one read of the flag
StepsToExit(i) ==
    IF wpc[i] = "get" THEN 3
    ELSE IF wpc[i] = "process" THEN 2
    ELSE IF wpc[i] = "check" THEN 1
    ELSE 0

\* C5 as stated: after stop_workers has cleared running, every worker that is
\* still in its loop eventually reads running == false at the top of the loop
\* and exits (a worker whose task fails meanwhile ends as in C8).
EveryWorkerObservesStop ==
    ~running ~> (\A i \in Started : wpc[i] \in {"exited", "died"})

\* C5 as amended: after stop_workers has cleared running, every worker that is
\* still in its loop eventually ends: it reads running == false at the top of
\* the loop and exits, or its task fails, or the interpreter exits after main
\* and stops the daemon thread where it is (only then). Until then the worker
\* is never blocked, every step it takes brings it closer to leaving the loop,
\* and it begins no get after the write, so that it completes at most one
\* further get (the one it was in). With no task enqueued no result is ever
\* recorded.
ShutdownLiveness ==
    /\ ~running ~> (\A i \in Started : wpc[i] \in Terminated)
    /\ [](\A i \in WorkerIds : (~running /\ wpc[i] \in Live) => ENABLED Worker(i))
    /\ [][\A i \in WorkerIds :
            (~running /\ wpc[i] \in Live /\ wpc'[i] # wpc[i] /\ mpc' = mpc) =>
                StepsToExit(i)' < StepsToExit(i)]_vars
    /\ [][\A i \in WorkerIds :
            (~running /\ wpc'[i] = "get") => wpc[i] = "get"]_vars
    /\ [](\A i \in WorkerIds : wpc[i] = "killed" => mpc = "exited")
    /\ [](\A i \in WorkerIds : wpc[i] = "exited" => ~running)
    /\ [](batch = 0 => TotalResults = 0)

\* two workers, no task, stop: both workers have left their loops on the
\* flag while stop_workers is still joining, and nothing is recorded
StoppedIdlePoolExited ==
    /\ batch = 0
    /\ Cardinality(Started) = 2
    /\ mpc = "join"
    /\ \A i \in Started : wpc[i] = "exited"
    /\ metrics = [k \in {} |-> <<>>]

\* C7: a caller that enqueues B tasks whose computations do not fail and calls
\* stop_workers only once B results are recorded does reach stop_workers;
\* every enqueued task is eventually recorded, and from the call of
\* stop_workers on the metrics store holds exactly B results, one per task.
CompleteWhenCallerWaits ==
    /\ <>(~running)
    /\ [](~running =>
            /\ TotalResults = batch
            /\ Len(submitted) = batch
            /\ event_queue = <<>>
            /\ \A n \in 0 .. (batch - 1) : \E i \in WorkerIds : n \in DoneIds(i))

\* the full batch has been recorded, split between the two workers, at stop
FullBatchRecordedBySplit ==
    /\ ~running
    /\ batch = MaxTasks
    /\ TotalResults = MaxTasks
    /\ \A i \in Started : Len(done[i]) >= 1
    /\ Cardinality(Started) = 2

\* number of elements of arr below v, and not above v
CountBelow(a, v) == Cardinality({k \in 1 .. Len(a) : a[k] < v})
CountAtMost(a, v) == Cardinality({k \in 1 .. Len(a) : a[k] <= v})

\* v stands at 0-based index n of every ascending arrangement of a
IsOrderStatistic(a, v, n) ==
    /\ \E k \in 1 .. Len(a) : a[k] = v
    /\ CountBelow(a, v) <= n
    /\ CountAtMost(a, v) >= n + 1

\* C12 as stated: the value returned for a sort task is the lower of the two
\* middle elements of the ascending arrangement of the array (even length)
SortReturnsLowerMiddle ==
    sort_result # NoResult =>
        IsOrderStatistic(sort_arr, sort_result[2], (Len(sort_arr) \div 2) - 1)

\* C12: the value returned for a sort task is the element at 0-based index
\* len(arr) // 2 of the ascending arrangement of the array, which for an even
\* length is the upper of the two middle elements; the array has the full
\* length and is left as generated
SortReturnsUpperMiddle ==
    sort_result # NoResult =>
        /\ Len(sort_arr) = ArrLen
        /\ IsOrderStatistic(sort_arr, sort_result[2], Len(sort_arr) \div 2)

\* a value was returned for an array whose two middle elements differ
MiddleElementsDiffer ==
    /\ sort_result # NoResult
    /\ CountBelow(sort_arr, 1) = Len(sort_arr) \div 2
    /\ CountAtMost(sort_arr, 0) = Len(sort_arr) \div 2

\* a step of stop_workers' loop is one join attempt on the next worker
OneJoinPerWorker ==
    ((mpc = "join" /\ mpc' # mpc) \/ joined' # joined) =>
        /\ mpc = "join"
        /\ joined' = joined + 1
        /\ joined' <= Len(workers)
        /\ mpc' = IF joined' = Len(workers) THEN "print" ELSE "join"

\* no statement of main ends or changes a worker
MainLeavesWorkers ==
    (mpc' # mpc /\ mpc # "returned") =>
        /\ \A i \in Started : wpc'[i] = wpc[i]
        /\ task' = task
        /\ metrics' = metrics

\* C11: main always reaches the end of its last statement, the print, also
\* when workers have died or never leave their task; stop_workers makes one
\* join attempt per started worker, in the order of self.workers, each of
\* which returns, and it has returned once every worker was tried; no step of
\* start, enqueue, analysis, stop, join or print ends or changes a worker.
MainCompletes ==
    /\ <>(mpc \in {"returned", "exited"})
    /\ [](StopReturned => joined = Len(workers) /\ Len(workers) >= 1)
    /\ [][OneJoinPerWorker /\ MainLeavesWorkers]_vars

\* main has returned although one worker has died and another is still in
\* a task
MainDoneWorkersNot ==
    /\ mpc = "returned"
    /\ \E i \in Started : wpc[i] = "died"
    /\ \E i \in Started : wpc[i] = "process"

\* worker i is executing a task whose computation does not fail
InFlight(i) == wpc[i] = "process" /\ ~Raises(task[i])

\* C13 as stated: no worker ends while it still holds a dequeued task whose
\* result it has not appended, whatever main does while the task executes
InFlightNeverInterrupted ==
    \A i \in Started : wpc[i] \in Terminated => task[i] = NoTask

\* the step by which worker i leaves a task that does not fail: its result is
\* appended to the worker's own entry, or the interpreter exits under it
InFlightStep(i) ==
    (InFlight(i) /\ (wpc'[i] # wpc[i] \/ task'[i] # task[i])) =>
        \/ /\ wpc'[i] = "check"
           /\ mpc' = mpc
           /\ done'[i] = Append(done[i], task[i].id)
           /\ Len(MetricsGet(metrics', WorkerKey(i)))
                  = Len(MetricsGet(metrics, WorkerKey(i))) + 1
        \/ /\ wpc'[i] = "killed"
           /\ mpc = "returned"
           /\ mpc' = "exited"

\* C13: clearing the flag and the joins never interrupt a task in flight: a
\* worker that holds a task whose computation does not fail leaves it only by
\* appending its result to its own entry, whatever the value of running and
\* wherever main stands, and it eventually does so, unless main returns and
\* the interpreter exits first, which stops the daemon thread in its task.
InFlightRunsToAppend ==
    /\ \A i \in WorkerIds : []<>(~InFlight(i))
    /\ [][\A i \in WorkerIds : InFlightStep(i)]_vars
    /\ [](\A i \in Started : wpc[i] = "killed" => mpc = "exited")

\* a result was appended after stop_workers had returned, by a worker that
\* then read the flag and left its loop; main has returned
RecordedAfterMainFinished ==
    /\ mpc = "returned"
    /\ late >= 1
    /\ \E i \in Started : wpc[i] = "exited" /\ done[i] # <<>>

\* the worker stop_workers is joining
Joining == workers[joined + 1]

\* a result counted as appended after stop_workers returned is one: some
\* worker left its task, while main stood after stop_workers, and the store
\* grew by that one result
LateAppendStep ==
    late' # late =>
        /\ late' = late + 1
        /\ mpc \in {"print", "returned"}
        /\ TotalResults' = TotalResults + 1
        /\ \E i \in Started : InFlight(i) /\ wpc'[i] = "check"

\* C14: the join does not wait for a task: while stop_workers joins a worker
\* that is executing a task the join can time out and stop_workers go on,
\* and after stop_workers has returned (and until the interpreter exits) a
\* worker still executing a task can append its result to the store.
BestEffortJoin ==
    /\ [](mpc = "join" /\ wpc[Joining] = "process" => ENABLED MJoinTimeout)
    /\ [](\A i \in Started :
            InFlight(i) /\ StopReturned => ENABLED WProcess(i))
    /\ [][LateAppendStep]_vars

\* stop_workers has returned, and a worker that had not ended has appended a
\* result since and is still alive
AppendedAfterStopReturned ==
    /\ mpc \in {"print", "returned"}
    /\ late >= 1
    /\ \E i \in Started : wpc[i] = "check" /\ done[i] # <<>>

\* the ids of the tasks some get has returned
DequeuedIds == {dequeued[k][2].id : k \in 1 .. Len(dequeued)}

\* the step is a put by main: one new task at the tail, no worker moves
PutAtTail ==
    /\ mpc = "put"
    /\ Len(submitted') = Len(submitted) + 1
    /\ submitted'[Len(submitted')].id \notin DequeuedIds
    /\ event_queue' = Append(event_queue, submitted'[Len(submitted')])
    /\ wpc' = wpc
    /\ dequeued' = dequeued

\* the step is a take by a worker inside get: the head leaves the queue and
\* becomes the task the worker holds, main does not move
TakeAtHead ==
    /\ event_queue # <<>>
    /\ event_queue' = Tail(event_queue)
    /\ mpc' = mpc
    /\ submitted' = submitted
    /\ \E i \in Started :
        /\ wpc[i] = "get"
        /\ wpc'[i] = "process"
        /\ task'[i] = Head(event_queue)
        /\ dequeued' = Append(dequeued, <<i, Head(event_queue)>>)

\* C15: the queue changes only by a put of main at its tail and by a take of
\* a worker at its head; no step of a worker that processes, fails, times out
\* or ends touches it, and a task a get has returned is never in the queue
\* again, so that no task is returned by two gets.
QueueOnlyPutAndTake ==
    /\ [][event_queue' # event_queue => PutAtTail \/ TakeAtHead]_vars
    /\ [](\A k \in 1 .. Len(event_queue) :
            event_queue[k].id \notin DequeuedIds)
    /\ [](Cardinality(DequeuedIds) = Len(dequeued))

\* both tasks of a batch were consumed, one recorded and one failed, and
\* the queue is empty
ConsumedByBothOutcomes ==
    /\ lost # {}
    /\ TotalResults >= 1
    /\ Len(dequeued) = 2
    /\ event_queue = <<>>

\* worker i is inside get(timeout=1) and the queue is empty
IdleInGet(i) == wpc[i] = "get" /\ event_queue = <<>>

\* the step by which worker i leaves a get on an empty queue, main standing
\* still: back to the top of the loop, alive, nothing else changed
EmptyTimeoutStep(i) ==
    (IdleInGet(i) /\ wpc'[i] # "get" /\ mpc' = mpc) =>
        /\ wpc' = [wpc EXCEPT ![i] = "check"]
        /\ event_queue' = event_queue
        /\ metrics' = metrics
        /\ running' = running
        /\ task' = task
        /\ lost' = lost

\* worker i begins a get only from the top of its loop, having read running
\* as true
GetAfterCheck(i) ==
    (wpc'[i] = "get" /\ wpc[i] # "get") => (wpc[i] = "check" /\ running)

\* C16: a get on an empty queue times out (the worker is not stuck in it),
\* and the timeout is no error: the worker stays alive and goes back to the
\* top of its loop, the queue, the metrics store and running are unchanged,
\* and the worker's next get begins only after it has read running as true.
EmptyTimeoutContinues ==
    /\ [](\A i \in Started : IdleInGet(i) => ENABLED WTimeout(i))
    /\ [][\A i \in Started : EmptyTimeoutStep(i) /\ GetAfterCheck(i)]_vars

\* a worker that has recorded a result is in a get on the empty queue of a
\* running pool: it came back to get after its earlier get
IdleWorkerStillServing ==
    \E i \in Started :
        /\ IdleInGet(i)
        /\ running
        /\ mpc = "stop"
        /\ done[i] # <<>>

\* a step keeps every entry of the store and every result in it where it
\* is, and adds at most one result, at the end of one entry
AppendOnlyStep ==
    /\ \A k \in DOMAIN metrics :
        /\ k \in DOMAIN metrics'
        /\ IsPrefix(metrics[k], metrics'[k])
    /\ \A i \in WorkerIds : IsPrefix(done[i], done'[i])
    /\ TotalResults' <= TotalResults + 1

\* the n-th result of worker i is a value of the n-th task it completed
ResultOfTask(i, n) ==
    /\ done[i][n] \in 0 .. (Len(submitted) - 1)
    /\ MetricsGet(metrics, WorkerKey(i))[n]
            \in ProcessTask(submitted[done[i][n] + 1])

\* C17: a worker's metrics sequence only grows at its end: a step keeps
\* every earlier result in place and adds at most one; the n-th result of a
\* worker belongs to the n-th task it completed, and the tasks one worker
\* completed stand in the order in which they were submitted.
MetricsAppendOnlyInOrder ==
    /\ [][AppendOnlyStep]_vars
    /\ [](\A i \in WorkerIds :
            /\ Len(MetricsGet(metrics, WorkerKey(i))) = Len(done[i])
            /\ \A n \in 1 .. Len(done[i]) : ResultOfTask(i, n)
            /\ \A a, b \in 1 .. Len(done[i]) :
                    a < b => done[i][a] < done[i][b])

\* one worker has recorded two results of different kinds
WorkerRecordedTwoKinds ==
    \E i \in Started :
        /\ Len(done[i]) = 2
        /\ submitted[done[i][1] + 1].type # submitted[done[i][2] + 1].type

\* the workers that hold a task: dequeued, not recorded, not failed
Held == {i \in WorkerIds : task[i] # NoTask}

\* the ids of the tasks submitted, in the queue, held, recorded
SubmittedIds == {submitted[k].id : k \in 1 .. Len(submitted)}
QueuedIds == {event_queue[k].id : k \in 1 .. Len(event_queue)}
HeldIds == {task[i].id : i \in Held}
RecordedIds == UNION {DoneIds(i) : i \in WorkerIds}

\* C18: the tasks enqueued so far are the tasks in the queue, those held by
\* a worker (dequeued and not yet recorded), those behind a recorded result
\* and those lost to a failed computation: every enqueued task is in exactly
\* one of the four places, and the four counts add up to the number enqueued.
TaskConservation ==
    /\ Len(submitted) = Len(event_queue) + Cardinality(Held) + TotalResults
                            + Cardinality(lost)
    /\ SubmittedIds = QueuedIds \cup HeldIds \cup RecordedIds \cup lost
    /\ Cardinality(SubmittedIds) =
            Cardinality(QueuedIds) + Cardinality(HeldIds)
                + Cardinality(RecordedIds) + Cardinality(lost)
    /\ Cardinality(QueuedIds) = Len(event_queue)
    /\ Cardinality(HeldIds) = Cardinality(Held)
    /\ Cardinality(RecordedIds) = TotalResults

\* of two tasks enqueued one is lost to a failure and the other is held by
\* a worker that the exit of the interpreter has stopped
OneLostOneHeldAtExit ==
    /\ Len(submitted) = 2
    /\ Cardinality(lost) = 1
    /\ \E i \in Held : wpc[i] = "killed"

\* the number of tasks worker i can still take without reading running
\* again: one if it is inside get, none anywhere else
TakesLeft(i) == IF wpc[i] = "get" THEN 1 ELSE 0

\* the step is a get of worker i returning a task
Dequeues(i) ==
    /\ Len(dequeued') = Len(dequeued) + 1
    /\ dequeued'[Len(dequeued')][1] = i

\* a step taken after running was cleared: no worker begins a get, and a
\* worker whose get returns a task was inside get and is not afterwards
AfterStopStep ==
    ~running =>
        /\ ~running'
        /\ Len(dequeued') <= Len(dequeued) + 1
        /\ \A i \in Started :
            /\ wpc'[i] = "get" => wpc[i] = "get"
            /\ Dequeues(i) => TakesLeft(i) = 1 /\ wpc'[i] = "process"

\* C19: after stop_workers has cleared running a worker inside get can
\* still take a task and process it, but it takes at most that one: no
\* worker begins a get after the write, and a get that returns a task uses
\* up the worker's one take; so the takes left never exceed the number of
\* workers.
AtMostOneTakeAfterStop ==
    /\ [][AfterStopStep]_vars
    /\ [](\A i \in Started :
            ~running /\ wpc[i] = "get" /\ event_queue # <<>>
                => ENABLED WGet(i))
    /\ [](Cardinality({i \in Started : TakesLeft(i) = 1}) <= Len(workers))

\* running is cleared and a worker is inside get with a task in the queue
TakePendingAfterStop ==
    /\ ~running
    /\ event_queue # <<>>
    /\ \E i \in Started : wpc[i] = "get"

====
